---- MODULE Spec2Model ----
(***************************************************************************)
(* NimBLECharacteristic: value management (transport read/write access,    *)
(* setValue/getValue), the subscriber table kept by setSubscribe, and the  *)
(* notify()/indicate() pass with its confirmation semaphore.               *)
(*                                                                         *)
(* Two specifications share the variables:                                 *)
(*   SpecW  the access dispatcher (handleGapEvent) against application     *)
(*          readers and setValue;                                          *)
(*   Spec   notify()/indicate() callers against setSubscribe events and    *)
(*          the transport's indication outcomes.                           *)
(***************************************************************************)
EXTENDS Integers, Sequences, FiniteSets, TLC

(* ------------------------------ bounds -------------------------------- *)

\* BLE_ATT_ATTR_MAX_LEN (512 in the NimBLE host) scaled down.
BLE_ATT_ATTR_MAX_LEN == 1
\* longest fragment chain of one transport write
MaxFrags == 2
\* indications the transport accepts before it answers with an error
MaxOutstanding == 1
\* subscribe events handled while one notify()/indicate() pass is in progress
MaxSubsPerPass == 1
\* chunks in which one logical read is answered
MaxChunks == 3

(* ------------------------------ domains ------------------------------- *)

RECURSIVE Rep(_, _)
Rep(b, n) == IF n = 0 THEN <<>> ELSE <<b>> \o Rep(b, n - 1)

\* byte strings offered as fragments and as setValue arguments: n bytes of
\* value n, up to one byte longer than the attribute limit
Frags == {Rep(n, n) : n \in 0..(BLE_ATT_ATTR_MAX_LEN + 1)}

Chains == UNION {[1..k -> Frags] : k \in 1..MaxFrags}

RECURSIVE Concat(_)
Concat(chain) ==
    IF Len(chain) = 0 THEN <<>> ELSE Head(chain) \o Concat(Tail(chain))

Conns == {"c1", "c2"}
\* a connection handle no connected peer has (what a stale iterator may read)
NoConn == "c?"
\* getPeerMTU results: 0 = not connected
PeerMTUs == {0, 4}

NOTIFY == "NOTIFY"
INDICATE == "INDICATE"
Flags == {NOTIFY, INDICATE}

Callers == {"app1", "app2"}

\* return codes
RC_OK == "0"
BLE_HS_EDONE == "BLE_HS_EDONE"
BLE_HS_ETIMEOUT == "BLE_HS_ETIMEOUT"
BLE_HS_ENOTCONN == "BLE_HS_ENOTCONN"
BLE_HS_ENOMEM == "BLE_HS_ENOMEM"
BLE_ATT_ERR_INVALID_ATTR_VALUE_LEN == "BLE_ATT_ERR_INVALID_ATTR_VALUE_LEN"
BLE_ATT_ERR_INSUFFICIENT_RES == "BLE_ATT_ERR_INSUFFICIENT_RES"

\* NimBLECharacteristicCallbacks::Status
SUCCESS_INDICATE == "SUCCESS_INDICATE"
SUCCESS_NOTIFY == "SUCCESS_NOTIFY"
ERROR_INDICATE_DISABLED == "ERROR_INDICATE_DISABLED"
ERROR_GATT == "ERROR_GATT"
ERROR_INDICATE_TIMEOUT == "ERROR_INDICATE_TIMEOUT"
ERROR_INDICATE_FAILURE == "ERROR_INDICATE_FAILURE"

None == "none"

(* ----------------------------- variables ------------------------------ *)

VARIABLES
    m_value,        \* committed value
    m_accum,        \* write accumulator of m_value
    hpc,            \* host task inside handleGapEvent: "idle", "chain", "callback"
    wrFrags,        \* fragment chain of the write being handled
    wrIdx,          \* next fragment of the chain to append
    wrBase,         \* history: value committed when the write began (or set since)
    wrAcc,          \* history: accumulator when the write began
    nOnWrite,       \* history: onWrite calls of the write being handled
    rdChunks,       \* history: chunks answered of the latest logical read
    rdOnRead,       \* history: onRead calls of the latest logical read
    ev,             \* history: the latest event (a read, a set, a finished
                    \* write; a send, an onStatus call, a transport outcome,
                    \* a handled subscribe event, a finished pass)
    m_properties,   \* NOTIFY / INDICATE property bits
    has2902,        \* a 0x2902 descriptor was created
    peerMTU,        \* getPeerMTU per connection handle
    m_subscribedVec,\* p2902->m_subscribedVec
    vecCap,         \* capacity of m_subscribedVec's storage
    sem,            \* m_pSemaphore: [avail, value]
    pc,             \* per caller: position in notify()
    is_notification,\* per caller: the (mutable) parameter of notify()
    requested,      \* history: the parameter as passed by the caller
    it,             \* per caller: index of the range-for iterator
    itBuf,          \* per caller: the storage the iterators range over
    itLive,         \* per caller: that storage is still the vector's
    loc,            \* per caller: _mtu, length, data, the sub_val read
    sent,           \* per caller: the indication it sent and waits for:
                    \* none, "pending" at the transport, or its outcome
    orphans,        \* transport: indications without an outcome whose
                    \* sender no longer waits
    pass            \* history per caller: the pass in progress (the table
                    \* at its start, the connections onStatus was called for)

varsR == <<rdChunks, rdOnRead>>
varsW == <<m_value, m_accum, hpc, wrFrags, wrIdx, wrBase, wrAcc, nOnWrite,
           varsR>>
varsN == <<m_properties, has2902, peerMTU, m_subscribedVec, vecCap, sem, pc,
           is_notification, requested, it, itBuf, itLive, loc, sent, orphans,
           pass>>
vars == <<varsW, varsN, ev>>

(* ------------------------ value buffer (m_value) ---------------------- *)

\* m_value.addPart: append to the accumulator
addPart(acc, part) == acc \o part

\* m_value.commit: the accumulator becomes the committed value
commit(acc) == acc

\* m_value.getValue / getData / getLength
getValue == m_value
getLength == Len(m_value)

Writing == hpc # "idle"

NoEv == [kind |-> None, reader |-> None, val |-> <<>>, during |-> FALSE,
         base |-> <<>>, full |-> <<>>, parts |-> 0, rc |-> None,
         frags |-> <<>>, acc |-> <<>>, acc0 |-> <<>>, onWrite |-> 0, onRead |-> 0,
         first |-> FALSE, chunk |-> 0, calls |-> 0, pre |-> <<>>,
         post |-> <<>>]

InitValue(v) ==
    /\ m_value = v
    /\ m_accum = <<>>
    /\ hpc = "idle"
    /\ wrFrags = <<>>
    /\ wrIdx = 0
    /\ wrBase = <<>>
    /\ wrAcc = <<>>
    /\ nOnWrite = 0
    /\ rdChunks = 0
    /\ rdOnRead = 0
    /\ ev = NoEv

(* -------------------- handleGapEvent: transport access ---------------- *)

\* BLE_GATT_ACCESS_OP_WRITE_CHR: the length test of the first fragment
WriteBegin(chain) ==
    /\ hpc = "idle"
    /\ IF Len(chain[1]) > BLE_ATT_ATTR_MAX_LEN
       THEN /\ ev' = [NoEv EXCEPT !.kind = "write",
                          !.rc = BLE_ATT_ERR_INVALID_ATTR_VALUE_LEN,
                          !.frags = chain, !.base = m_value,
                          !.val = m_value, !.acc = m_accum,
                          !.acc0 = m_accum]
            /\ UNCHANGED <<m_value, m_accum, hpc, wrFrags, wrIdx, wrBase,
                           wrAcc, nOnWrite>>
       ELSE /\ hpc' = "chain"
            /\ wrFrags' = chain
            /\ wrIdx' = 1
            /\ wrBase' = m_value
            /\ wrAcc' = m_accum
            /\ nOnWrite' = 0
            /\ ev' = NoEv
            /\ UNCHANGED <<m_value, m_accum>>
    /\ UNCHANGED <<varsR, varsN>>

\* history: m_value.commit() as it happened
Committed ==
    [NoEv EXCEPT !.kind = "commit", !.frags = wrFrags, !.val = m_value',
         !.parts = wrIdx - 1, !.acc = m_accum, !.acc0 = wrAcc]

\* a variant that commits before the last fragment is appended
WriteNextEarlyCommit ==
    /\ hpc = "chain"
    /\ IF wrIdx < Len(wrFrags)
       THEN /\ m_accum' = addPart(m_accum, wrFrags[wrIdx])
            /\ wrIdx' = wrIdx + 1
            /\ ev' = NoEv
            /\ UNCHANGED <<m_value, hpc>>
       ELSE /\ m_value' = commit(m_accum)
            /\ m_accum' = <<>>
            /\ hpc' = "callback"
            /\ ev' = Committed
            /\ UNCHANGED wrIdx
    /\ UNCHANGED <<wrFrags, wrBase, wrAcc, nOnWrite, varsR, varsN>>

\* a variant that commits after every fragment
WriteNextCommitEach ==
    /\ hpc = "chain"
    /\ IF wrIdx <= Len(wrFrags)
       THEN /\ m_value' = commit(addPart(m_accum, wrFrags[wrIdx]))
            /\ m_accum' = addPart(m_accum, wrFrags[wrIdx])
            /\ wrIdx' = wrIdx + 1
            /\ ev' = NoEv
            /\ UNCHANGED hpc
       ELSE /\ m_value' = commit(m_accum)
            /\ m_accum' = <<>>
            /\ hpc' = "callback"
            /\ ev' = Committed
            /\ UNCHANGED wrIdx
    /\ UNCHANGED <<wrFrags, wrBase, wrAcc, nOnWrite, varsR, varsN>>

\* addPart of the first fragment and of the SLIST_NEXT loop, one fragment per
\* step, then commit
WriteNext ==
    /\ hpc = "chain"
    /\ IF wrIdx <= Len(wrFrags)
       THEN /\ m_accum' = addPart(m_accum, wrFrags[wrIdx])
            /\ wrIdx' = wrIdx + 1
            /\ ev' = NoEv
            /\ UNCHANGED <<m_value, hpc>>
       ELSE /\ m_value' = commit(m_accum)
            /\ m_accum' = <<>>
            /\ hpc' = "callback"
            /\ ev' = Committed
            /\ UNCHANGED wrIdx
    /\ UNCHANGED <<wrFrags, wrBase, wrAcc, nOnWrite, varsR, varsN>>

\* onWrite and return 0
WriteCallback ==
    /\ hpc = "callback"
    /\ hpc' = "idle"
    /\ nOnWrite' = 0
    /\ wrFrags' = <<>>
    /\ wrIdx' = 0
    /\ wrBase' = <<>>
    /\ wrAcc' = <<>>
    /\ ev' = [NoEv EXCEPT !.kind = "write", !.rc = RC_OK,
                  !.frags = wrFrags, !.base = wrBase, !.val = m_value,
                  !.acc = m_accum, !.acc0 = wrAcc,
                  !.parts = wrIdx - 1, !.onWrite = nOnWrite + 1]
    /\ UNCHANGED <<m_value, m_accum, varsR, varsN>>

\* what a reader gets, with the write in progress at that moment
Observation(reader) ==
    [NoEv EXCEPT !.kind = "read", !.reader = reader, !.val = getValue,
         !.during = Writing, !.base = wrBase, !.full = Concat(wrFrags),
         !.frags = wrFrags,
         !.parts = IF hpc = "chain" THEN wrIdx - 1 ELSE 0]

\* what onRead may do: nothing, or setValue of a value that fits
Callbacks ==
    {[set |-> FALSE, v |-> <<>>]} \cup
    {[set |-> TRUE, v |-> v] : v \in {f \in Frags : Len(f) <= BLE_ATT_ATTR_MAX_LEN}}

\* a variant that copies the value before it calls onRead
ReadResponseCopyFirst(first, cb) ==
    [onRead |-> IF first THEN 1 ELSE 0,
     value |-> IF first /\ cb.set THEN cb.v ELSE m_value,
     copied |-> m_value]

\* READ_CHR: onRead when the packet header is longer than 8 bytes, then the
\* committed value is appended to the response
ReadResponse(first, cb) ==
    LET v == IF first /\ cb.set THEN cb.v ELSE m_value
    IN [onRead |-> IF first THEN 1 ELSE 0, value |-> v, copied |-> v]

\* BLE_GATT_ACCESS_OP_READ_CHR: first = the packet header is longer than 8
\* bytes, which the host does for the first chunk of a read and not for its
\* continuations; ok = os_mbuf_append succeeds; cb = what onRead does
ReadChr(first, ok, cb) ==
    LET r == ReadResponse(first, cb) IN
    /\ hpc = "idle"
    /\ ~first => (rdChunks >= 1 /\ rdChunks < MaxChunks)
    /\ m_value' = r.value
    /\ rdChunks' = IF first THEN 1 ELSE rdChunks + 1
    /\ rdOnRead' = (IF first THEN 0 ELSE rdOnRead) + r.onRead
    /\ ev' = [Observation("transport read") EXCEPT
                  !.val = r.copied,
                  !.rc = IF ok THEN RC_OK ELSE BLE_ATT_ERR_INSUFFICIENT_RES,
                  !.onRead = r.onRead,
                  !.first = first,
                  !.chunk = rdChunks',
                  !.calls = rdOnRead',
                  !.pre = IF first /\ cb.set THEN cb.v ELSE m_value,
                  !.post = m_value']
    /\ UNCHANGED <<m_accum, hpc, wrFrags, wrIdx, wrBase, wrAcc, nOnWrite,
                   varsN>>

\* getValue(), getData(), getDataLength() on the application task
AppRead(reader) ==
    /\ ev' = Observation(reader)
    /\ UNCHANGED <<m_value, m_accum, hpc, wrFrags, wrIdx, wrBase, wrAcc,
                   nOnWrite, varsR, varsN>>

\* setValue(data, length) on the application task
SetValue(v) ==
    /\ IF Len(v) > BLE_ATT_ATTR_MAX_LEN
       THEN UNCHANGED <<m_value, wrBase>>
       ELSE /\ m_value' = v
            /\ wrBase' = IF Writing THEN v ELSE wrBase
    /\ ev' = [NoEv EXCEPT !.kind = "set", !.frags = <<v>>, !.val = m_value']
    /\ UNCHANGED <<m_accum, hpc, wrFrags, wrIdx, wrAcc, nOnWrite, varsR,
                   varsN>>

Readers == {"getValue", "getData", "getDataLength"}

NextW ==
    \/ \E chain \in Chains : WriteBegin(chain)
    \/ WriteNext
    \/ WriteCallback
    \/ \E first \in BOOLEAN, ok \in BOOLEAN, cb \in Callbacks :
          ReadChr(first, ok, cb)
    \/ \E r \in Readers : AppRead(r)
    \/ \E v \in Frags : SetValue(v)

(* ------------------- characteristic, gate, transport ------------------ *)

\* the constructor creates m_pSemaphore only with the INDICATE property
HasSemaphore == INDICATE \in m_properties

\* FreeRTOS::Semaphore::give(value) and give()
give_value(s, v) == [avail |-> TRUE, value |-> v]
give(s) == [avail |-> TRUE, value |-> s.value]
\* FreeRTOS::Semaphore::take
take(s) == [avail |-> FALSE, value |-> s.value]

\* getPeerMTU: 0 for a handle that is not connected
getPeerMTU(c) == IF c \in Conns THEN peerMTU[c] ELSE 0
getConnectedCount == Cardinality({c \in Conns : peerMTU[c] # 0})

Entries == [conn_id : Conns, sub_val : (SUBSET Flags) \ {{}}]
\* what a read through an iterator into freed storage may give besides the
\* element that was there: the handle of no connection with any flags
StaleEntries == [conn_id : {NoConn}, sub_val : SUBSET Flags]

Outcomes == {BLE_HS_EDONE, BLE_HS_ETIMEOUT, BLE_HS_ENOTCONN}
\* the indications the transport holds without an outcome
Pending == orphans + Cardinality({t \in Callers : sent[t] = "pending"})

NoLoc == [mtu |-> 0, length |-> 0, from |-> <<>>, data |-> <<>>,
          sub_val |-> {}, live |-> FALSE, conn |-> None]
NoPass == [connected |-> 0, snap |-> <<>>, log |-> <<>>, firstFailed |-> FALSE,
           touched |-> FALSE, gate |-> FALSE, subs |-> 0]
\* history of a pass: onStatus was called for conn; kept while no subscribe
\* event has changed the table under the pass (the table at the start of the
\* loop is kept throughout)
Logged(p, conn, failed) ==
    IF p.touched THEN p
    ELSE [p EXCEPT !.log = Append(@, conn),
                   !.firstFailed = @ \/ (p.log = <<>> /\ failed)]

\* history of a pass: the semaphore was taken
Gated(p) == IF p.touched THEN p ELSE [p EXCEPT !.gate = TRUE]

\* history of a pass: a subscribe event came, changing the table or not
Subscribed(p, changed) ==
    IF changed \/ p.touched
    THEN [NoPass EXCEPT !.connected = p.connected, !.touched = TRUE,
                        !.snap = p.snap, !.subs = p.subs + 1]
    ELSE [p EXCEPT !.subs = @ + 1]

InitN(props, dsc, mtus, callers) ==
    /\ m_properties = props
    /\ has2902 = dsc
    /\ peerMTU = mtus
    /\ m_subscribedVec = <<>>
    /\ vecCap = 0
    /\ sem = [avail |-> TRUE, value |-> RC_OK]
    /\ pc = [t \in Callers |-> IF t \in callers THEN "idle" ELSE "off"]
    /\ is_notification = [t \in Callers |-> TRUE]
    /\ requested = [t \in Callers |-> TRUE]
    /\ it = [t \in Callers |-> 0]
    /\ itBuf = [t \in Callers |-> <<>>]
    /\ itLive = [t \in Callers |-> TRUE]
    /\ loc = [t \in Callers |-> NoLoc]
    /\ sent = [t \in Callers |-> None]
    /\ orphans = 0
    /\ pass = [t \in Callers |-> NoPass]

\* the connections are interchangeable: c2 is connected only if c1 is
MTUConfigs == {f \in [Conns -> PeerMTUs] : f["c2"] # 0 => f["c1"] # 0}

PropertySets == {{NOTIFY}, {INDICATE}, {NOTIFY, INDICATE}}

InitW ==
    /\ InitValue(<<>>)
    /\ InitN({NOTIFY, INDICATE}, TRUE, [c \in Conns |-> 0], {})

SpecW == InitW /\ [][NextW]_vars


(* --------------------------- setSubscribe ----------------------------- *)

Active(t) == pc[t] \in {"loop", "body", "take", "wait"}

\* the search loop: index of the connection's entry, 0 for end()
FindConn(vec, c) ==
    IF \E i \in 1..Len(vec) : vec[i].conn_id = c
    THEN CHOOSE i \in 1..Len(vec) : vec[i].conn_id = c
    ELSE 0

\* vector::erase
Erase(vec, i) == SubSeq(vec, 1, i - 1) \o SubSeq(vec, i + 1, Len(vec))

\* the storage after erase moved the tail down: the last slot keeps its bytes
ErasedStorage(vec, i) == Erase(vec, i) \o <<vec[Len(vec)]>>

\* vector::push_back grows the storage when it is full
GrownCap(cap) == IF cap = 0 THEN 1 ELSE 2 * cap

\* a variant that adds an entry without the search
UpdateTableNoSearch(vec, c, subVal) ==
    IF subVal # {}
    THEN Append(vec, [conn_id |-> c, sub_val |-> subVal])
    ELSE IF FindConn(vec, c) # 0 THEN Erase(vec, FindConn(vec, c)) ELSE vec

\* the table after the search loop and the push_back, update or erase
UpdateTable(vec, c, subVal) ==
    LET at == FindConn(vec, c) IN
    IF subVal # {}
    THEN IF at = 0
         THEN Append(vec, [conn_id |-> c, sub_val |-> subVal])
         ELSE [vec EXCEPT ![at].sub_val = subVal]
    ELSE IF at # 0 THEN Erase(vec, at) ELSE vec

\* the value given to the semaphore for a new subscribe value
SubscribeSignal(subVal) ==
    IF INDICATE \in subVal THEN RC_OK ELSE ERROR_INDICATE_DISABLED

\* the tasks blocked in m_pSemaphore->wait() that a give lets go on, each
\* with the connection it sent its indication to
Released ==
    {[caller |-> t, conn |-> loc[t].conn, live |-> loc[t].live] :
        t \in {u \in Callers : pc[u] = "wait" /\ ~sem.avail}}

\* setSubscribe(event): cur_notify = n, cur_indicate = i of connection c;
\* the descriptor's onWrite runs before the search loop, so the table it can
\* see is the one before the event
SetSubscribe(c, n, i) ==
    LET subVal == (IF n THEN {NOTIFY} ELSE {}) \cup (IF i THEN {INDICATE} ELSE {})
        vec == m_subscribedVec
        at == FindConn(vec, c)
        grows == subVal # {} /\ at = 0
        realloc == (grows /\ Len(vec) = vecCap) \/ (subVal = {} /\ at # 0)
        newVec == UpdateTable(vec, c, subVal)
        repeat == ev.kind = "sub" /\ ev.conn = c /\ ev.subVal = subVal
        oldStorage == IF subVal = {} /\ at # 0
                      THEN ErasedStorage(vec, at)
                      ELSE IF subVal # {} /\ at # 0 THEN newVec ELSE vec
        gave == IF HasSemaphore THEN SubscribeSignal(subVal) ELSE None
        woke == IF HasSemaphore THEN Released ELSE {}
    IN
    /\ (n => NOTIFY \in m_properties)
    /\ (i => INDICATE \in m_properties)
    /\ \A t \in Callers : Active(t) => pass[t].subs < MaxSubsPerPass
    /\ sem' = IF HasSemaphore
              THEN give_value(sem, SubscribeSignal(subVal))
              ELSE sem
    /\ IF ~has2902
       THEN /\ ev' = [kind |-> "sub", conn |-> c, subVal |-> subVal,
                      gave |-> gave, woke |-> woke, seen |-> <<>>,
                      after |-> <<>>, handled |-> FALSE, onWrite |-> 0,
                      repeat |-> repeat]
            /\ pass' = [t \in Callers |->
                           IF Active(t)
                           THEN Subscribed(pass[t], FALSE)
                           ELSE pass[t]]
            /\ UNCHANGED <<m_subscribedVec, vecCap, itBuf, itLive>>
       ELSE /\ m_subscribedVec' = newVec
            /\ vecCap' = IF grows
                         THEN IF Len(vec) = vecCap THEN GrownCap(vecCap)
                              ELSE vecCap
                         ELSE IF subVal = {} /\ at # 0 THEN Len(newVec)
                              ELSE vecCap
            /\ itBuf' = [t \in Callers |->
                           IF Active(t) /\ itLive[t]
                           THEN SubSeq(oldStorage, 1, Len(itBuf[t]))
                           ELSE itBuf[t]]
            /\ itLive' = [t \in Callers |->
                           IF Active(t) /\ realloc THEN FALSE ELSE itLive[t]]
            /\ pass' = [t \in Callers |->
                           IF Active(t)
                           THEN Subscribed(pass[t], newVec # vec)
                           ELSE pass[t]]
            /\ ev' = [kind |-> "sub", conn |-> c, subVal |-> subVal,
                      gave |-> gave, woke |-> woke, seen |-> vec,
                      after |-> newVec, handled |-> TRUE, onWrite |-> 1,
                      repeat |-> repeat]
    /\ UNCHANGED <<varsW, m_properties, has2902, peerMTU, pc, is_notification,
                   requested, it, loc, sent, orphans>>

(* ------------------------ notify() / indicate() ----------------------- *)

\* a variant without the first fallback test
ResolveModeNotifyKept(isN, sub_val) ==
    IF ~isN /\ INDICATE \notin sub_val THEN TRUE ELSE isN

\* the mode after the two fallback tests of one loop iteration
ResolveMode(isN, sub_val) ==
    LET a == IF isN /\ NOTIFY \notin sub_val THEN FALSE ELSE isN
    IN IF ~a /\ INDICATE \notin sub_val THEN TRUE ELSE a

\* statusRC of the indicate branch for the rc it ends with
IndicateStatus(rc) ==
    IF rc = RC_OK \/ rc = BLE_HS_EDONE THEN SUCCESS_INDICATE
    ELSE IF rc = BLE_HS_ETIMEOUT THEN ERROR_INDICATE_TIMEOUT
    ELSE ERROR_INDICATE_FAILURE

\* the code passed to onStatus by the indicate branch
IndicateCode(rc) == IF rc = RC_OK \/ rc = BLE_HS_EDONE THEN RC_OK ELSE rc

\* statusRC of the notify branch
NotifyStatus(rc) == IF rc = RC_OK THEN SUCCESS_NOTIFY ELSE ERROR_GATT

\* the status the indicate branch reports after an immediate send failure:
\* the ERROR_GATT it assigns is overwritten by the test of rc that follows
FailedSendStatus(rc) ==
    LET statusRC == ERROR_GATT IN IndicateStatus(rc)

\* a variant that leaves the loop after a failure
NextItBreak(i, rc) ==
    IF rc \notin {RC_OK, BLE_HS_EDONE} THEN i + Cardinality(Conns) ELSE i + 1

\* the iterator after a subscriber was handled, whatever the result rc
NextIt(i, rc) == i + 1

\* the length given to ble_hs_mbuf_from_flat for a value of that length and
\* a peer MTU: the warning about truncation changes nothing
PayloadLength(length, mtu) == length

\* *it read through the range-for iterator: the vector's element while the
\* storage is the vector's, anything once the storage was freed
EntryReads(t) ==
    IF itLive[t]
    THEN {[e |-> itBuf[t][it[t]], live |-> TRUE]}
    ELSE {[e |-> x, live |-> FALSE] : x \in {itBuf[t][it[t]]} \cup StaleEntries}

\* the transport has room for another indication
HasRoom == Pending < MaxOutstanding

NoTx == [mode |-> None]

\* a transport call: ble_gattc_notify_custom or ble_gattc_indicate_custom.
\* lenFrom is the value whose length was fetched, data the value the data
\* pointer was fetched from (in the step of the skips and the mbuf)
TxRecord(t, conn, mode, rc, sub_val, live) ==
    [caller |-> t, conn |-> conn, mode |-> mode,
     len |-> PayloadLength(loc[t].length, loc[t].mtu),
     valLen |-> loc[t].length, lenFrom |-> loc[t].from,
     data |-> IF pc[t] = "body" THEN getValue ELSE loc[t].data, valBefore |-> m_value, valAfter |-> m_value',
     mtu |-> loc[t].mtu, requested |-> requested[t], sub_val |-> sub_val,
     live |-> live, pending |-> Pending, rc |-> rc]

\* an onStatus call
StatusRecord(t, conn, mode, status, code, sv, live, failed, sig, out, free) ==
    [caller |-> t, conn |-> conn, mode |-> mode, status |-> status,
     code |-> code, requested |-> requested[t], sub_val |-> sv,
     live |-> live, sendFailed |-> failed, signal |-> sig,
     outcome |-> out, gateFree |-> free]

\* the pass as it ended
DoneEvent(t, p) ==
    [kind |-> "done", caller |-> t, connected |-> p.connected,
     snap |-> p.snap, log |-> p.log, firstFailed |-> p.firstFailed,
     touched |-> p.touched, gate |-> p.gate]

\* p2902->m_subscribedVec with p2902 == nullptr: the access faults, or the
\* range read at that address is empty, or it holds something
NullDescriptorOutcomes ==
    {[fault |-> TRUE, range |-> <<>>], [fault |-> FALSE, range |-> <<>>]}
    \cup {[fault |-> FALSE, range |-> <<x>>] : x \in StaleEntries}

\* notify(is_notification) up to the first test of the loop; indicate() is
\* notify(false)
NotifyStart(t, isN) ==
    /\ pc[t] = "idle"
    /\ IF getConnectedCount = 0
       THEN /\ ev' = DoneEvent(t, NoPass)
            /\ UNCHANGED <<pc, it, itBuf, itLive, pass, is_notification,
                           requested>>
       ELSE IF ~has2902
       THEN \E o \in NullDescriptorOutcomes :
            IF o.fault
            THEN /\ pc' = [pc EXCEPT ![t] = "fault"]
                 /\ ev' = [kind |-> "fault", caller |-> t]
                 /\ UNCHANGED <<it, itBuf, itLive, pass, is_notification,
                                requested>>
            ELSE /\ pc' = [pc EXCEPT ![t] = "loop"]
                 /\ is_notification' = [is_notification EXCEPT ![t] = isN]
                 /\ requested' = [requested EXCEPT ![t] = isN]
                 /\ it' = [it EXCEPT ![t] = 1]
                 /\ itBuf' = [itBuf EXCEPT ![t] = o.range]
                 /\ itLive' = [itLive EXCEPT ![t] = FALSE]
                 /\ pass' = [pass EXCEPT ![t] =
                                [NoPass EXCEPT !.connected = getConnectedCount,
                                               !.touched = TRUE]]
                 /\ ev' = NoEv
       ELSE /\ pc' = [pc EXCEPT ![t] = "loop"]
            /\ is_notification' = [is_notification EXCEPT ![t] = isN]
            /\ requested' = [requested EXCEPT ![t] = isN]
            /\ it' = [it EXCEPT ![t] = 1]
            /\ itBuf' = [itBuf EXCEPT ![t] = m_subscribedVec]
            /\ itLive' = [itLive EXCEPT ![t] = TRUE]
            /\ pass' = [pass EXCEPT ![t] =
                           [NoPass EXCEPT !.connected = getConnectedCount,
                                          !.snap = m_subscribedVec]]
            /\ ev' = NoEv
    /\ UNCHANGED <<varsW, m_properties, has2902, peerMTU, m_subscribedVec,
                   vecCap, sem, loc, sent, orphans>>

\* loop test, getPeerMTU(it.conn_id) and the fetch of the length
LoopHead(t) ==
    /\ pc[t] = "loop"
    /\ IF it[t] > Len(itBuf[t])
       THEN /\ pc' = [pc EXCEPT ![t] = "idle"]
            /\ ev' = DoneEvent(t, pass[t])
            /\ pass' = [pass EXCEPT ![t] = NoPass]
            /\ it' = [it EXCEPT ![t] = 0]
            /\ itBuf' = [itBuf EXCEPT ![t] = <<>>]
            /\ itLive' = [itLive EXCEPT ![t] = TRUE]
            /\ is_notification' = [is_notification EXCEPT ![t] = TRUE]
            /\ requested' = [requested EXCEPT ![t] = TRUE]
            /\ UNCHANGED loc
       ELSE /\ \E r \in EntryReads(t) :
                loc' = [loc EXCEPT ![t] =
                           [NoLoc EXCEPT !.mtu = getPeerMTU(r.e.conn_id),
                                         !.length = getLength,
                                         !.from = getValue]]
            /\ pc' = [pc EXCEPT ![t] = "body"]
            /\ ev' = NoEv
            /\ UNCHANGED <<pass, it, itBuf, itLive, is_notification,
                           requested>>
    /\ UNCHANGED <<varsW, m_properties, has2902, peerMTU, m_subscribedVec,
                   vecCap, sem, sent, orphans>>

\* the fetch of the data, the two skips, the mode fallback and, for a
\* notification, ble_gattc_notify_custom and onStatus
Body(t) ==
    /\ pc[t] = "body"
    /\ UNCHANGED <<varsW, m_properties, has2902, peerMTU, m_subscribedVec,
                   vecCap, sem, requested, itBuf, itLive, sent,
                   orphans>>
    /\ \E r \in EntryReads(t) :
        LET isN == ResolveMode(is_notification[t], r.e.sub_val) IN
        IF loc[t].mtu = 0 \/ r.e.sub_val = {}
        THEN /\ it' = [it EXCEPT ![t] = it[t] + 1]
             /\ pc' = [pc EXCEPT ![t] = "loop"]
             /\ loc' = [loc EXCEPT ![t] = NoLoc]
             /\ ev' = NoEv
             /\ UNCHANGED <<is_notification, pass>>
        ELSE IF HasSemaphore /\ ~isN
        THEN /\ is_notification' = [is_notification EXCEPT ![t] = isN]
             /\ loc' = [loc EXCEPT ![t].data = getValue,
                                   ![t].sub_val = r.e.sub_val,
                                   ![t].live = r.live]
             /\ pc' = [pc EXCEPT ![t] = "take"]
             /\ ev' = NoEv
             /\ UNCHANGED <<it, pass>>
        ELSE \E rc \in {RC_OK, BLE_HS_ENOTCONN} :
             /\ is_notification' = [is_notification EXCEPT ![t] = isN]
             /\ loc' = [loc EXCEPT ![t] = NoLoc]
             /\ ev' = [kind |-> "status",
                       tx |-> TxRecord(t, r.e.conn_id, "notify", rc,
                                       r.e.sub_val, r.live),
                       st |-> StatusRecord(t, r.e.conn_id, "notify",
                                           NotifyStatus(rc), rc, r.e.sub_val,
                                           r.live, rc # RC_OK, None, None,
                                           sem.avail)]
             /\ pass' = [pass EXCEPT
                            ![t] = Logged(@, r.e.conn_id, rc # RC_OK)]
             /\ it' = [it EXCEPT ![t] = NextIt(it[t], rc)]
             /\ pc' = [pc EXCEPT ![t] = "loop"]

\* m_pSemaphore->take, ble_gattc_indicate_custom and, when that fails, give
\* and onStatus
IndicateSend(t) ==
    /\ pc[t] = "take"
    /\ sem.avail
    /\ UNCHANGED <<varsW, m_properties, has2902, peerMTU, m_subscribedVec,
                   vecCap, is_notification, requested, itBuf,
                   itLive, orphans>>
    /\ \E r \in EntryReads(t) :
       \E rc \in (IF HasRoom THEN {RC_OK, BLE_HS_ENOTCONN}
                             ELSE {BLE_HS_ENOMEM}) :
       LET live == loc[t].live /\ r.live
           tx == TxRecord(t, r.e.conn_id, "indicate", rc, loc[t].sub_val, live)
       IN
        IF rc = RC_OK
        THEN /\ sem' = take(sem)
             /\ sent' = [sent EXCEPT ![t] = "pending"]
             /\ loc' = [loc EXCEPT ![t].live = live, ![t].conn = r.e.conn_id]
             /\ pass' = [pass EXCEPT ![t] = Gated(@)]
             /\ pc' = [pc EXCEPT ![t] = "wait"]
             /\ ev' = [kind |-> "tx", tx |-> tx]
             /\ UNCHANGED it
        ELSE /\ sem' = give(take(sem))
             /\ ev' = [kind |-> "status", tx |-> tx,
                       st |-> StatusRecord(t, r.e.conn_id, "indicate",
                                           FailedSendStatus(rc),
                                           IndicateCode(rc), loc[t].sub_val,
                                           live, TRUE, None, None,
                                           sem'.avail)]
             /\ pass' = [pass EXCEPT
                            ![t] = Logged(Gated(@), r.e.conn_id, TRUE)]
             /\ it' = [it EXCEPT ![t] = NextIt(it[t], rc)]
             /\ loc' = [loc EXCEPT ![t] = NoLoc]
             /\ pc' = [pc EXCEPT ![t] = "loop"]
             /\ UNCHANGED sent

\* m_pSemaphore->wait() returns the semaphore's value; onStatus
IndicateWait(t) ==
    /\ pc[t] = "wait"
    /\ sem.avail
    /\ LET rc == sem.value IN
       /\ ev' = [kind |-> "status", tx |-> NoTx,
                 st |-> StatusRecord(t, loc[t].conn, "indicate",
                                     IndicateStatus(rc), IndicateCode(rc),
                                     loc[t].sub_val, loc[t].live, FALSE, rc,
                                     sent[t], sem.avail)]
       /\ pass' = [pass EXCEPT
                      ![t] = Logged(@, loc[t].conn,
                                    IndicateStatus(rc) # SUCCESS_INDICATE)]
       /\ orphans' = IF sent[t] = "pending" THEN orphans + 1 ELSE orphans
       /\ sent' = [sent EXCEPT ![t] = None]
       /\ it' = [it EXCEPT ![t] = NextIt(it[t], rc)]
       /\ loc' = [loc EXCEPT ![t] = NoLoc]
       /\ pc' = [pc EXCEPT ![t] = "loop"]
    /\ UNCHANGED <<varsW, m_properties, has2902, peerMTU, m_subscribedVec,
                   vecCap, sem, is_notification, requested, itBuf,
                   itLive>>

\* whose indication the transport ends: a waiting caller's or an orphan
Senders == Callers \cup {"orphan"}

\* the transport ends an accepted indication with outcome o (confirmation,
\* timeout or failure) and the server gives the semaphore that value
Resolve(w, o) ==
    /\ IF w \in Callers
       THEN /\ sent[w] = "pending"
            /\ sent' = [sent EXCEPT ![w] = o]
            /\ UNCHANGED orphans
       ELSE /\ orphans > 0
            /\ orphans' = orphans - 1
            /\ UNCHANGED sent
    /\ sem' = give_value(sem, o)
    /\ ev' = [kind |-> "resolved", outcome |-> o, waited |-> w \in Callers]
    /\ UNCHANGED <<varsW, m_properties, has2902, peerMTU, m_subscribedVec,
                   vecCap, pc, is_notification, requested, it,
                   itBuf, itLive, loc, pass>>

\* committed value during notify(): longer than MTU - 3
NotifyValues == {<<2, 2>>}

\* one application task calls notify()/indicate()
Init ==
    /\ \E v \in NotifyValues : InitValue(v)
    /\ \E props \in PropertySets, dsc \in BOOLEAN, mtus \in MTUConfigs :
          InitN(props, dsc, mtus, {"app1"})

Next ==
    \/ \E t \in Callers, isN \in BOOLEAN : NotifyStart(t, isN)
    \/ \E t \in Callers : LoopHead(t)
    \/ \E t \in Callers : Body(t)
    \/ \E t \in Callers : IndicateSend(t)
    \/ \E t \in Callers : IndicateWait(t)
    \/ \E w \in Senders, o \in Outcomes : Resolve(w, o)
    \/ \E c \in Conns, n \in BOOLEAN, i \in BOOLEAN : SetSubscribe(c, n, i)

Spec == Init /\ [][Next]_vars

\* a task inside notify() goes on running
CallerStep(t) == LoopHead(t) \/ Body(t) \/ IndicateSend(t) \/ IndicateWait(t)

\* the callers are scheduled, and the transport ends every indication it
\* accepted
Fairness ==
    /\ \A t \in Callers : WF_vars(CallerStep(t))
    /\ \A w \in Senders : WF_vars(\E o \in Outcomes : Resolve(w, o))

SpecLive == Init /\ [][Next]_vars /\ Fairness

\* the same with setValue called by another application task while a pass
\* is in progress; both properties, the descriptor present, c1 the one
\* connected peer
InitV ==
    /\ \E v \in NotifyValues : InitValue(v)
    /\ \E mtus \in {f \in MTUConfigs : f["c1"] # 0 /\ f["c2"] = 0} :
          InitN({NOTIFY, INDICATE}, TRUE, mtus, {"app1"})

\* the pass of the one caller, the transport, the subscribe events of c1
\* and setValue while the pass is in progress
NextV ==
    \/ \E isN \in BOOLEAN : NotifyStart("app1", isN)
    \/ CallerStep("app1")
    \/ \E w \in Senders, o \in Outcomes : Resolve(w, o)
    \/ \E n \in BOOLEAN, i \in BOOLEAN : SetSubscribe("c1", n, i)
    \/ \E v \in Frags : Active("app1") /\ SetValue(v)

SpecV == InitV /\ [][NextV]_vars

(* ------------------------- claims under SpecW ------------------------- *)

\* C1: write atomicity. A read made while a transport write is being
\* handled returns the value committed before the write (or set by setValue
\* since) or the concatenation of all fragments of the write, never a
\* partial concatenation.
C1_WriteAtomicity ==
    (ev.kind = "read" /\ ev.during) => ev.val \in {ev.base, ev.full}

\* C1 witness: getValue() runs after some but not all fragments are
\* appended, and the partial concatenation differs from both allowed values.
C1_Witness ==
    /\ ev.kind = "read"
    /\ ev.reader = "getValue"
    /\ ev.during
    /\ ev.parts >= 1
    /\ ev.parts < Len(ev.frags)
    /\ Concat(SubSeq(ev.frags, 1, ev.parts)) \notin {ev.base, ev.full}

\* C10: a transport write with any fragment longer than the maximum
\* attribute length is rejected with the length error, leaves the committed
\* value and the accumulator unchanged and does not call onWrite.
C10_OversizeRejected ==
    (/\ ev.kind = "write"
     /\ \E i \in 1..Len(ev.frags) : Len(ev.frags[i]) > BLE_ATT_ATTR_MAX_LEN)
    => /\ ev.rc = BLE_ATT_ERR_INVALID_ATTR_VALUE_LEN
       /\ ev.val = ev.base
       /\ ev.acc = ev.acc0
       /\ ev.onWrite = 0

\* C11: while an accepted write is handled the accumulator holds the
\* fragments appended so far in chain order; commit comes after all of them
\* and makes their concatenation the committed value; onWrite is called once
\* for the write, after the commit.
C11_WriteOrdering ==
    /\ hpc = "chain"
          => m_accum = wrAcc \o Concat(SubSeq(wrFrags, 1, wrIdx - 1))
    /\ ev.kind = "commit"
          => /\ ev.parts = Len(ev.frags)
             /\ ev.acc = Concat(ev.frags)
             /\ ev.val = Concat(ev.frags)
             /\ hpc = "callback"
    /\ (ev.kind = "write" /\ ev.rc = RC_OK)
          => /\ ev.parts = Len(ev.frags)
             /\ ev.onWrite = 1
             /\ ev.acc = <<>>

\* C11 witness: onWrite returns for a write of two non-empty fragments
\* whose concatenation is the committed value.
C11_Witness ==
    /\ ev.kind = "write"
    /\ ev.rc = RC_OK
    /\ Len(ev.frags) = 2
    /\ \A k \in 1..2 : ev.frags[k] # <<>>
    /\ ev.val = Concat(ev.frags)
    /\ ev.onWrite = 1

\* C12: in a logical read answered in chunks onRead is called once, on the
\* first chunk and before the value is copied into the response; the chunk
\* copied is the committed value as onRead left it, and the read itself does
\* not change the committed value.
C12_ReadCallbackOnce ==
    (ev.kind = "read" /\ ev.reader = "transport read")
    => /\ ev.calls = 1
       /\ ev.onRead = (IF ev.chunk = 1 THEN 1 ELSE 0)
       /\ ev.val = ev.pre
       /\ ev.post = ev.pre

\* C12 witness: the third chunk of a logical read is answered without
\* onRead, one call having been made for the read.
C12_Witness ==
    /\ ev.kind = "read"
    /\ ev.reader = "transport read"
    /\ ev.chunk = 3
    /\ ev.onRead = 0
    /\ ev.calls = 1
    /\ ev.val = m_value

(* -------------------------- claims under Spec ------------------------- *)

Min(a, b) == IF a <= b THEN a ELSE b

SentNow == ev.kind \in {"tx", "status"} /\ ev.tx.mode # None

IndicateStatuses == {SUCCESS_INDICATE, ERROR_INDICATE_TIMEOUT,
                     ERROR_INDICATE_FAILURE, ERROR_INDICATE_DISABLED}
NotifyStatuses == {SUCCESS_NOTIFY, ERROR_GATT}

\* C2: the payload handed to the transport for a subscriber has length
\* min(L, M - 3) for the committed value length L and the peer MTU M, and the
\* committed value is the same before and after the send.
C2_PayloadTruncated ==
    (SentNow /\ ev.tx.live)
    => /\ ev.tx.len = Min(Len(ev.tx.valBefore), ev.tx.mtu - 3)
       /\ ev.tx.valAfter = ev.tx.valBefore

\* C3: a notify request to a subscriber with only indicate enabled goes out
\* as an indication and an indicate request to a subscriber with only notify
\* enabled goes out as a notification; onStatus gets a status of the
\* delivered mode.
C3_ModeFallback ==
    /\ (SentNow /\ ev.tx.live)
       => /\ (ev.tx.requested /\ ev.tx.sub_val = {INDICATE})
                => ev.tx.mode = "indicate"
          /\ (~ev.tx.requested /\ ev.tx.sub_val = {NOTIFY})
                => ev.tx.mode = "notify"
    /\ (ev.kind = "status" /\ ev.st.live)
       => /\ (ev.st.requested /\ ev.st.sub_val = {INDICATE})
                => /\ ev.st.mode = "indicate"
                   /\ ev.st.status \in IndicateStatuses
          /\ (~ev.st.requested /\ ev.st.sub_val = {NOTIFY})
                => /\ ev.st.mode = "notify"
                   /\ ev.st.status \in NotifyStatuses

\* C3 witness: onStatus reports a confirmed indication for a notify request
\* to a subscriber that has only indicate enabled.
C3_Witness ==
    /\ ev.kind = "status"
    /\ ev.st.live
    /\ ev.st.requested
    /\ ev.st.sub_val = {INDICATE}
    /\ ev.st.mode = "indicate"
    /\ ev.st.status = SUCCESS_INDICATE
    /\ ev.st.signal = BLE_HS_EDONE

\* C4: every subscriber whose flags allow the requested mode is sent in the
\* requested mode, whatever was done for the subscribers before it.
C4_FallbackLocal ==
    (SentNow /\ ev.tx.live)
    => /\ (ev.tx.requested /\ NOTIFY \in ev.tx.sub_val) => ev.tx.mode = "notify"
       /\ (~ev.tx.requested /\ INDICATE \in ev.tx.sub_val)
             => ev.tx.mode = "indicate"

\* C5: when ble_gattc_indicate_custom fails at once, the semaphore is given
\* back, onStatus gets ERROR_GATT and the caller did not wait.
C5_SendFailureReportsGatt ==
    (ev.kind = "status" /\ ev.st.mode = "indicate" /\ ev.st.sendFailed)
    => /\ ev.st.status = ERROR_GATT
       /\ ev.st.gateFree
       /\ ev.st.signal = None

\* C6: a wait released with the indicate-disabled signal is reported as
\* ERROR_INDICATE_DISABLED, a timeout as ERROR_INDICATE_TIMEOUT, any other
\* non-success signal as ERROR_INDICATE_FAILURE.
C6_DistinctConfirmationErrors ==
    (ev.kind = "status" /\ ev.st.mode = "indicate" /\ ~ev.st.sendFailed)
    => /\ ev.st.signal = ERROR_INDICATE_DISABLED
             => ev.st.status = ERROR_INDICATE_DISABLED
       /\ ev.st.signal = BLE_HS_ETIMEOUT
             => ev.st.status = ERROR_INDICATE_TIMEOUT
       /\ ev.st.signal \notin {RC_OK, BLE_HS_EDONE, BLE_HS_ETIMEOUT,
                              ERROR_INDICATE_DISABLED}
             => ev.st.status = ERROR_INDICATE_FAILURE

\* C7: no indicate transport call is made while an indication sent earlier
\* has no outcome yet.
C7_OneOutstanding ==
    (SentNow /\ ev.tx.live /\ ev.tx.mode = "indicate") => ev.tx.pending = 0

\* C8: an indication the transport accepted and then timed out is reported
\* to onStatus as ERROR_INDICATE_TIMEOUT, with the semaphore free again; so
\* its sender is still waiting when the timeout comes.
C8_TimeoutReported ==
    /\ (ev.kind = "status" /\ ev.st.outcome = BLE_HS_ETIMEOUT)
       => /\ ev.st.status = ERROR_INDICATE_TIMEOUT
          /\ ev.st.gateFree
    /\ (ev.kind = "resolved" /\ ev.outcome = BLE_HS_ETIMEOUT) => ev.waited

RECURSIVE Targets(_)
\* the connections of the entries that are connected and subscribed, in order
Targets(snap) ==
    IF Len(snap) = 0 THEN <<>>
    ELSE (IF getPeerMTU(Head(snap).conn_id) # 0 /\ Head(snap).sub_val # {}
          THEN <<Head(snap).conn_id>> ELSE <<>>) \o Targets(Tail(snap))

\* C9: a pass calls onStatus exactly once for every entry of the table that
\* is connected and subscribed, in table order, and for no other entry,
\* whatever the results were (for a table no subscribe event changed during
\* the pass); with no connected peer it calls no onStatus and does not touch
\* the semaphore.
C9_StatusPerSubscriber ==
    ev.kind = "done"
    => /\ ev.connected = 0 => (ev.log = <<>> /\ ~ev.gate)
       /\ ~ev.touched => ev.log = Targets(ev.snap)

\* C9 witness: a pass over two subscribers ends with two onStatus calls, the
\* first of them reporting a failure.
C9_Witness ==
    /\ ev.kind = "done"
    /\ ~ev.touched
    /\ Len(ev.snap) = 2
    /\ Len(ev.log) = 2
    /\ ev.firstFailed

\* the indexes of the table's entries of connection c
EntriesOf(vec, c) == {k \in 1..Len(vec) : vec[k].conn_id = c}

\* C13: the table never holds two entries of one connection nor an entry
\* without flags; a subscribe event with flags leaves exactly one entry of
\* its connection, with those flags, and the same event again changes
\* nothing; an event without flags leaves no entry of its connection and
\* changes nothing when there was none; the other connections' entries stay.
C13_TableInvariant ==
    /\ \A c \in Conns : Cardinality(EntriesOf(m_subscribedVec, c)) <= 1
    /\ \A k \in 1..Len(m_subscribedVec) : m_subscribedVec[k].sub_val # {}
    /\ (ev.kind = "sub" /\ ev.handled)
       => LET mine == EntriesOf(ev.after, ev.conn)
              Other(e) == e.conn_id # ev.conn
          IN /\ ev.after = m_subscribedVec
             /\ ev.subVal # {}
                   => /\ Cardinality(mine) = 1
                      /\ \A k \in mine : ev.after[k].sub_val = ev.subVal
             /\ ev.subVal = {} => mine = {}
             /\ (ev.subVal = {} /\ EntriesOf(ev.seen, ev.conn) = {})
                   => ev.after = ev.seen
             /\ ev.repeat => ev.after = ev.seen
             /\ SelectSeq(ev.after, Other) = SelectSeq(ev.seen, Other)

\* C13 witness: the same event with flags is handled a second time for a
\* connection, with another connection in the table.
C13_Witness ==
    /\ ev.kind = "sub"
    /\ ev.handled
    /\ ev.repeat
    /\ ev.subVal = {NOTIFY}
    /\ Len(ev.after) = 2
    /\ ev.after = ev.seen

\* C14: without a 0x2902 descriptor a subscribe event and a notify() or
\* indicate() call do nothing: no transport send, no onStatus, no fault, and
\* the table and the semaphore stay as they were.
C14_NoDescriptorAbandons ==
    ~has2902
    => /\ ev.kind \notin {"fault", "tx", "status"}
       /\ ev.kind = "sub" => (ev.gave = None /\ ~ev.handled)
       /\ m_subscribedVec = <<>>
       /\ sem = [avail |-> TRUE, value |-> RC_OK]

\* C15: every call of notify() or indicate() that has started returns,
\* given that the callers keep running and the transport ends every
\* indication it accepted.
C15_NotifyReturns ==
    \A t \in Callers : (pc[t] \notin {"idle", "off"}) ~> (pc[t] = "idle")

\* C16: a subscribe event signals the gate only when the gate exists and the
\* new subscribe value has no indicate flag, and then with the
\* indicate-disabled value; an event whose value has the indicate flag gives
\* no signal and lets no blocked indication wait go on.
C16_SignalOnlyOnDisable ==
    ev.kind = "sub"
    => /\ ev.gave # None
             => /\ HasSemaphore
                /\ INDICATE \notin ev.subVal
                /\ ev.gave = ERROR_INDICATE_DISABLED
       /\ INDICATE \in ev.subVal => (ev.gave = None /\ ev.woke = {})

\* C17: a wait for the confirmation of connection A ends early only on an
\* event of connection A whose value has no indicate flag; an event of
\* another connection lets no wait for A go on.
C17_CancelOnlyOwnConnection ==
    ev.kind = "sub"
    => \A w \in ev.woke :
          w.live => (w.conn = ev.conn /\ INDICATE \notin ev.subVal)

\* C18: snapshot iteration. Every entry a pass handles is a valid entry of
\* the table as it was when the loop started, whatever subscribe events are
\* handled while the pass is in progress: onStatus is called only for
\* connections of that table, and no entry is read through an iterator that
\* a change of the table has invalidated.
C18_SnapshotIteration ==
    (ev.kind = "status" /\ has2902)
    => /\ ev.st.live
       /\ \E k \in 1..Len(pass[ev.st.caller].snap) :
             pass[ev.st.caller].snap[k].conn_id = ev.st.conn

\* C19: for a subscribe event handled with the descriptor present, the
\* descriptor's onWrite is called once and after the table was updated: the
\* table it can see is the table the event leaves.
C19_CallbackAfterUpdate ==
    (ev.kind = "sub" /\ ev.handled)
    => /\ ev.onWrite = 1
       /\ ev.seen = ev.after

\* C20: onStatus reports SUCCESS_INDICATE only when the transport ended
\* the indication this pass sent to that subscriber with a confirmation.
C20_SuccessOnlyOnOwnConfirmation ==
    (/\ ev.kind = "status"
     /\ has2902
     /\ ev.st.live
     /\ ev.st.status = SUCCESS_INDICATE)
    => ev.st.outcome = BLE_HS_EDONE

(* ------------------------- claims under SpecV ------------------------- *)

\* C21: the payload sent to a subscriber is taken from one committed value:
\* the value whose length was fetched is the value the bytes were fetched
\* from, also when setValue commits a new value between the two fetches.
C21_PayloadFromOneValue ==
    (ev.kind \in {"tx", "status"} /\ ev.tx.mode # None /\ ev.tx.live)
    => ev.tx.lenFrom = ev.tx.data
====
